---- MODULE Spec2Model ----
(***************************************************************************)
(* TFMultiImage: one image held as a PIL image, an RGB uint8 array, a BGR  *)
(* array and a float32 array, re-derived by update() after every mutator.  *)
(*                                                                         *)
(* Arrays are records [kind, dtype, h, w, px, buf]: px[i][j] is the pixel  *)
(* <<c1, c2, c3>> of row i, column j, and buf names the buffer that backs  *)
(* the value, so that two references to one buffer are told from two equal *)
(* copies.  A float x is represented by the integer x * FloatUnit.         *)
(***************************************************************************)
EXTENDS Integers, Sequences, FiniteSets, TLC

VARIABLES heap, a, b, last

vars == <<heap, a, b, last>>

\* ---------------------------------------------------------------- bounds
\* Largest height and width of an image.
MaxDim == 2
\* Number of calls made on the objects in one run.
MaxCalls == 3

\* ------------------------------------------------------------- constants
\* The factor between the uint8 domain and the [0,1] float domain.
Scale == 255
\* compress(quality=65)
DefaultQuality == 65

FloatUnit == 2 * Scale
Wrap == Scale + 1

NoneVal == [kind |-> "None"]
NoExc == [type |-> "none", msg |-> ""]
Fresh == <<0, "fresh">>
CallerBuf == <<0, "caller">>

Ok(v) == [exc |-> NoExc, val |-> v]
Raise(t, m) == [exc |-> [type |-> t, msg |-> m], val |-> NoneVal]

\* ---------------------------------------------------------------- values
ndarray(dtype, h, w, px) ==
    [kind |-> "ndarray", dtype |-> dtype, h |-> h, w |-> w, px |-> px, buf |-> Fresh]

PIL(h, w, px, info) ==
    [kind |-> "PIL", h |-> h, w |-> w, px |-> px, info |-> info, buf |-> Fresh]

\* The value without the identity of its buffer.
Content(v) ==
    IF v.kind = "ndarray" THEN [dtype |-> v.dtype, h |-> v.h, w |-> v.w, px |-> v.px]
    ELSE IF v.kind = "PIL" THEN [dtype |-> "PIL", h |-> v.h, w |-> v.w, px |-> v.px]
    ELSE [dtype |-> "None", h |-> 0, w |-> 0, px |-> <<>>]

IsFloat(dtype) == dtype \in {"float32", "float64"}

\* type(image), as the f-string of update prints it.
TypeName(image) ==
    CASE image.kind = "int" -> "<class 'int'>"
      [] image.kind = "list" -> "<class 'list'>"
      [] image.kind = "str" -> "<class 'str'>"
      [] image.kind = "PIL" -> "<class 'PIL.Image.Image'>"
      [] image.kind = "ndarray" -> "<class 'numpy.ndarray'>"
      [] OTHER -> "<class 'NoneType'>"

\* ---------------------------------------------------------------- inputs
\* Two colours, as 8-bit values and as floats in [0,1] (1.0, 0.0, 0.5).
Palette(dtype) ==
    IF IsFloat(dtype) THEN << <<FloatUnit, 0, Scale>>, <<0, Scale, FloatUnit>> >>
    ELSE << <<255, 0, 0>>, <<0, 128, 255>> >>

\* The h x w image whose pixels alternate between the two colours, from k.
Pattern(dtype, h, w, k) ==
    [i \in 1..h |-> [j \in 1..w |-> Palette(dtype)[((i + j + k) % 2) + 1]]]

Shapes == {<<MaxDim, MaxDim>>, <<1, MaxDim>>}

\* Arrays the caller owns.
Arrays(dtype) ==
    {[ndarray(dtype, s[1], s[2], Pattern(dtype, s[1], s[2], k)) EXCEPT !.buf = CallerBuf] :
        s \in Shapes, k \in 0..1}

\* Images the caller owns.
Images ==
    {[PIL(s[1], s[2], Pattern("uint8", s[1], s[2], k), <<>>) EXCEPT !.buf = CallerBuf] :
        s \in Shapes, k \in 0..1}

\* The files there are.
Disk ==
    [p \in {"default.JPG"} |-> ndarray("uint8", MaxDim, MaxDim, Pattern("uint8", MaxDim, MaxDim, 0))]

Paths == {[kind |-> "str", s |-> "default.JPG"], [kind |-> "str", s |-> "missing.JPG"]}

Others == {[kind |-> "int", v |-> 42], [kind |-> "list"]}

Inputs ==
    Images \cup Arrays("uint8") \cup Arrays("float32") \cup Arrays("float64")
        \cup Paths \cup Others

ResizeArgs ==
    {<<w, h, FALSE, 0>> : w \in 0..MaxDim, h \in 0..MaxDim}
        \cup {<<w, 0, TRUE, 0>> : w \in 1..MaxDim}
        \cup {<<0, h, TRUE, 0>> : h \in 1..MaxDim}
        \cup {<<0, 0, FALSE, m>> : m \in 1..MaxDim}

CropAreas == {<<x, y, s, s>> : x \in 0..(MaxDim - 1), y \in 0..(MaxDim - 1), s \in 1..MaxDim}

Qualities == {DefaultQuality, 100}

Adjustments == {1, 2}

\* -------------------------------------------------------- numpy and cv2
\* image.astype(np.uint8): a float is truncated, an integer kept, both
\* modulo 256; always a new buffer.
astype_uint8(image) ==
    LET cast(v) == IF IsFloat(image.dtype) THEN (v \div FloatUnit) % Wrap ELSE v % Wrap
    IN  ndarray("uint8", image.h, image.w,
                [i \in 1..image.h |-> [j \in 1..image.w |->
                    [c \in 1..3 |-> cast(image.px[i][j][c])]]])

\* image * 255 on a float array.
times255(image) ==
    ndarray(image.dtype, image.h, image.w,
            [i \in 1..image.h |-> [j \in 1..image.w |->
                [c \in 1..3 |-> image.px[i][j][c] * Scale]]])

\* (self.CVImage / 255.).astype(np.float32)
toTFImage(cv) ==
    LET f(v) == (v * FloatUnit) \div Scale
    IN  ndarray("float32", cv.h, cv.w,
                [i \in 1..cv.h |-> [j \in 1..cv.w |->
                    [c \in 1..3 |-> f(cv.px[i][j][c])]]])

\* cv2.cvtColor(src, cv2.COLOR_RGB2BGR): the channels reversed, the element
\* type kept; cv2 accepts 8-bit unsigned and 32-bit float here and rejects a
\* 64-bit float array.
cvtColor(src) ==
    IF src.dtype \notin {"uint8", "float32"}
    THEN Raise("cv2.error", "Unsupported depth of input image")
    ELSE Ok(ndarray(src.dtype, src.h, src.w,
                    [i \in 1..src.h |-> [j \in 1..src.w |->
                        [c \in 1..3 |-> src.px[i][j][4 - c]]]]))

\* ------------------------------------------------- utils.image (missing)
\* np.array(image) of an RGB image.
PILToCV(image) ==
    ndarray("uint8", image.h, image.w, image.px)

\* Image.fromarray(image): a new image without metadata.
CVToPIL(image) ==
    PIL(image.h, image.w, image.px, <<>>)

\* The encoded size in bytes of the image's pixel content.
imageFilesize(image) ==
    3 * image.h * image.w

\* The image file at path, or FileNotFoundError when there is none.
loadImage(path) ==
    IF path \in DOMAIN Disk THEN Ok(Disk[path])
    ELSE Raise("FileNotFoundError", path)

\* Re-encodes the image at a lossy quality: every channel value falls to a
\* multiple of a step that grows as the quality falls; a new image.
compressImage(image, quality) ==
    LET step == (100 - quality) \div 32 + 1
        q(v) == (v \div step) * step
    IN  PIL(image.h, image.w,
            [i \in 1..image.h |-> [j \in 1..image.w |->
                [c \in 1..3 |-> q(image.px[i][j][c])]]],
            image.info)

\* A new image with the same pixels and the metadata entry set.
editImageMetadata(image, key, value) ==
    PIL(image.h, image.w, image.px, <<key, value>>)

\* The pixel of the source that nearest-neighbour sampling picks.
Sample(n, m, i) == ((i - 1) * n) \div m + 1

\* resizer(image=, size=(width, height), keepAR=, maxDim=, interpolation=):
\* the target size is maxDim on the larger side, or the given side with the
\* other one scaled (keepAR), or (width, height); a target side below 1 is
\* rejected.  0 stands for a side that is not given.
resizeImage(image, width, height, keepAR, maxDim) ==
    LET big == IF image.w >= image.h THEN image.w ELSE image.h
        tw == IF maxDim > 0 THEN (image.w * maxDim) \div big
              ELSE IF keepAR /\ width <= 0 THEN (image.w * height) \div image.h
              ELSE width
        th == IF maxDim > 0 THEN (image.h * maxDim) \div big
              ELSE IF keepAR /\ width > 0 THEN (image.h * width) \div image.w
              ELSE height
    IN  IF tw < 1 \/ th < 1 THEN Raise("cv2.error", "dsize")
        ELSE Ok(ndarray(image.dtype, th, tw,
                 [i \in 1..th |-> [j \in 1..tw |->
                     image.px[Sample(image.h, th, i)][Sample(image.w, tw, j)]]]))

\* The sub-image of the rectangle <<x, y, width, height>> (x, y from 0).  What
\* a rectangle that leaves the image does is the primitive's choice: it is
\* rejected, or it is cut to the image.
cropImage(image, cropArea) ==
    LET x == cropArea[1]
        y == cropArea[2]
        x2 == IF x + cropArea[3] > image.w THEN image.w ELSE x + cropArea[3]
        y2 == IF y + cropArea[4] > image.h THEN image.h ELSE y + cropArea[4]
        inside == x + cropArea[3] <= image.w /\ y + cropArea[4] <= image.h
        cut == ndarray(image.dtype, y2 - y, x2 - x,
                 [i \in 1..(y2 - y) |-> [j \in 1..(x2 - x) |-> image.px[y + i][x + j]]])
    IN  IF x >= image.w \/ y >= image.h \/ cropArea[3] < 1 \/ cropArea[4] < 1
        THEN {Raise("ValueError", "cropArea")}
        ELSE IF inside THEN {Ok(cut)}
        ELSE {Ok(cut), Raise("ValueError", "cropArea")}

\* tf.image.adjust_hue(image, delta) for delta = thirds / 3: a hue rotation
\* by a third of the circle moves every channel to the next one.
adjust_hue(image, thirds) ==
    LET rot(p) == CASE thirds % 3 = 0 -> p
                    [] thirds % 3 = 1 -> <<p[3], p[1], p[2]>>
                    [] OTHER -> <<p[2], p[3], p[1]>>
    IN  ndarray(image.dtype, image.h, image.w,
                [i \in 1..image.h |-> [j \in 1..image.w |-> rot(image.px[i][j])]])

\* ------------------------------------------------------------ TFMultiImage
\* A value stored in a field: a buffer made by the call belongs to the
\* object, a buffer that came from outside keeps its identity.
Own(self, field, v) ==
    IF v.buf = Fresh THEN [v EXCEPT !.buf = <<self.id, field>>] ELSE v

Result(obj, exc) == [obj |-> obj, exc |-> exc]

\* The last two assignments of update.
finish(self) ==
    LET s1 == [self EXCEPT !.TFImage = Own(self, "TFImage", toTFImage(self.CVImage))]
    IN  Result([s1 EXCEPT !.byteSize = imageFilesize(s1.PILImage)], NoExc)

\* isinstance(image, Image.Image)
updatePIL(self, image) ==
    LET s1 == [self EXCEPT !.PILImage = Own(self, "PILImage", image)]
        s2 == [s1 EXCEPT !.CVImage = Own(self, "CVImage", astype_uint8(PILToCV(image)))]
        r == cvtColor(s2.CVImage)
    IN  IF r.exc # NoExc THEN Result(s2, r.exc)
        ELSE finish([s2 EXCEPT !.CVBGRImage = Own(self, "CVBGRImage", r.val)])

\* updateArray without the test of the element type: every array is scaled.
updateArray_scaled(self, image) ==
    LET cv == astype_uint8(times255(image))
        s1 == [self EXCEPT !.CVImage = Own(self, "CVImage", cv)]
        s2 == [s1 EXCEPT !.PILImage = Own(self, "PILImage", CVToPIL(s1.CVImage))]
        r == cvtColor(image)
    IN  IF r.exc # NoExc THEN Result(s2, r.exc)
        ELSE finish([s2 EXCEPT !.CVBGRImage = Own(self, "CVBGRImage", r.val)])

\* isinstance(image, np.ndarray)
updateArray(self, image) ==
    LET cv == IF image.dtype = "float32" THEN astype_uint8(times255(image))
              ELSE astype_uint8(image)
        s1 == [self EXCEPT !.CVImage = Own(self, "CVImage", cv)]
        s2 == [s1 EXCEPT !.PILImage = Own(self, "PILImage", CVToPIL(s1.CVImage))]
        r == cvtColor(image)
    IN  IF r.exc # NoExc THEN Result(s2, r.exc)
        ELSE finish([s2 EXCEPT !.CVBGRImage = Own(self, "CVBGRImage", r.val)])

\* isinstance(image, str)
updateStr(self, image) ==
    LET ld == loadImage(image.s)
        s1 == [self EXCEPT !.CVImage = Own(self, "CVImage", astype_uint8(ld.val))]
        s2 == [s1 EXCEPT !.PILImage = Own(self, "PILImage", CVToPIL(s1.CVImage))]
        r == cvtColor(s2.CVImage)
    IN  IF ld.exc # NoExc THEN Result(self, ld.exc)
        ELSE IF r.exc # NoExc THEN Result(s2, r.exc)
        ELSE finish([s2 EXCEPT !.CVBGRImage = Own(self, "CVBGRImage", r.val)])

UnsupportedMsg(image) ==
    <<"The type ", TypeName(image), " is not supported in the MultiImage constructor">>

\* update without its else branch: an unsupported value falls through to the
\* last two assignments.
update_fallthrough(self, image) ==
    CASE image.kind = "PIL" -> updatePIL(self, image)
      [] image.kind = "ndarray" -> updateArray(self, image)
      [] image.kind = "str" -> updateStr(self, image)
      [] OTHER -> IF self.CVImage = NoneVal
                  THEN Result(self, [type |-> "TypeError", msg |-> <<"unsupported operand">>])
                  ELSE finish(self)

update(self, image) ==
    CASE image.kind = "PIL" -> updatePIL(self, image)
      [] image.kind = "ndarray" -> updateArray(self, image)
      [] image.kind = "str" -> updateStr(self, image)
      [] OTHER -> Result(self, [type |-> "TypeError", msg |-> UnsupportedMsg(image)])

\* The fields as __init__ sets them before it calls update.
Blank(id) ==
    [id |-> id, PILImage |-> NoneVal, CVImage |-> NoneVal, CVBGRImage |-> NoneVal,
     TFImage |-> NoneVal, byteSize |-> 0]

init(id, image) == update(Blank(id), image)

\* resize that shrinks the object to one pixel before the size is checked.
resize_early(self, width, height, keepAR, maxDim) ==
    LET r == resizeImage(self.CVImage, width, height, keepAR, maxDim)
        one == update(self, resizeImage(self.CVImage, 1, 1, FALSE, 0).val)
    IN  IF r.exc # NoExc THEN Result(one.obj, r.exc) ELSE update(self, r.val)

resize(self, width, height, keepAR, maxDim) ==
    LET r == resizeImage(self.CVImage, width, height, keepAR, maxDim)
    IN  IF r.exc # NoExc THEN Result(self, r.exc) ELSE update(self, r.val)

crop(self, cropArea) ==
    {IF r.exc # NoExc THEN Result(self, r.exc) ELSE update(self, r.val) :
        r \in cropImage(self.CVImage, cropArea)}

compress(self, quality) ==
    update(self, compressImage(self.PILImage, quality))

setMetadata(self, key, value) ==
    update(self, editImageMetadata(self.PILImage, key, value))

adjustHue(self, adjustment) ==
    update(self, adjust_hue(self.CVImage, adjustment))

\* self.CVImage.copy()
ndcopy(image) == ndarray(image.dtype, image.h, image.w, image.px)

\* copy that returns the object itself.
copy_self(self) == Result(self, NoExc)

\* The object copy() returns: a new one, built from a copy of CVImage.
copy(self) == init(self.id + 1, ndcopy(self.CVImage))

\* ------------------------------------------------------------- the program
NoObj == [id |-> 0]
ObjIds == 1..2

Ref(t) == IF t = "a" THEN a ELSE b
Live(t) == Ref(t) # 0 /\ last.n < MaxCalls

Call(op, t, arg, exc) ==
    [n |-> last.n + 1, op |-> op, target |-> t, arg |-> arg, exc |-> exc]

\* The call on the object t names ends: the object holds what the call left.
Apply(op, t, arg, res) ==
    /\ heap' = [heap EXCEPT ![Ref(t)] = res.obj]
    /\ last' = Call(op, t, arg, res.exc)
    /\ UNCHANGED <<a, b>>

Init ==
    /\ heap = [i \in ObjIds |-> NoObj]
    /\ a = 0
    /\ b = 0
    /\ last = [n |-> 0, op |-> "none", target |-> "none", arg |-> NoneVal, exc |-> NoExc]

\* a = TFMultiImage(image): an __init__ that raises leaves a unbound.
Construct ==
    \E image \in Inputs :
        /\ a = 0
        /\ last.n < MaxCalls
        /\ LET res == init(1, image)
           IN  /\ a' = IF res.exc = NoExc THEN 1 ELSE 0
               /\ heap' = IF res.exc = NoExc THEN [heap EXCEPT ![1] = res.obj] ELSE heap
               /\ last' = Call("init", "a", image, res.exc)
        /\ b' = b

\* t.update(image), with an input of the caller's or with t.CVImage itself.
DoUpdate ==
    \E t \in {"a", "b"} :
        /\ Live(t)
        /\ \E image \in Inputs \cup {heap[Ref(t)].CVImage} :
              Apply("update", t, image, update(heap[Ref(t)], image))

DoResize ==
    \E t \in {"a", "b"}, r \in ResizeArgs :
        /\ Live(t)
        /\ Apply("resize", t, NoneVal, resize(heap[Ref(t)], r[1], r[2], r[3], r[4]))

DoCrop ==
    \E t \in {"a", "b"}, cropArea \in CropAreas :
        /\ Live(t)
        /\ \E res \in crop(heap[Ref(t)], cropArea) : Apply("crop", t, NoneVal, res)

DoCompress ==
    \E t \in {"a", "b"}, quality \in Qualities :
        /\ Live(t)
        /\ Apply("compress", t, NoneVal, compress(heap[Ref(t)], quality))

DoSetMetadata ==
    \E t \in {"a", "b"} :
        /\ Live(t)
        /\ Apply("setMetadata", t, NoneVal, setMetadata(heap[Ref(t)], "Exif", "v"))

DoAdjustHue ==
    \E t \in {"a", "b"}, adjustment \in Adjustments :
        /\ Live(t)
        /\ Apply("adjustHue", t, NoneVal, adjustHue(heap[Ref(t)], adjustment))

\* b = a.copy()
DoCopy ==
    /\ Live("a")
    /\ b = 0
    /\ LET res == copy(heap[a])
       IN  /\ b' = IF res.exc = NoExc THEN res.obj.id ELSE 0
           /\ heap' = IF res.exc = NoExc THEN [heap EXCEPT ![res.obj.id] = res.obj] ELSE heap
           /\ last' = Call("copy", "a", NoneVal, res.exc)
    /\ a' = a

Next ==
    \/ Construct
    \/ DoUpdate
    \/ DoResize
    \/ DoCrop
    \/ DoCompress
    \/ DoSetMetadata
    \/ DoAdjustHue
    \/ DoCopy

Spec == Init /\ [][Next]_vars

\* ------------------------------------------------------------------ claims
LiveIds == {i \in {a, b} : i # 0}

\* The object the last call was made on, before and after the step.
Target == IF last'.target = "a" THEN a ELSE b

\* The number an element stands for, in units of 1 / FloatUnit.
Num(img, i, j, c) ==
    IF IsFloat(img.dtype) THEN img.px[i][j][c] ELSE img.px[i][j][c] * FloatUnit

SameShape(x, y) == x.h = y.h /\ x.w = y.w

\* bgr[:,:,0] == rgb[:,:,2], bgr[:,:,1] == rgb[:,:,1], bgr[:,:,2] == rgb[:,:,0]
IsSwapOf(bgr, rgb) ==
    /\ SameShape(bgr, rgb)
    /\ \A i \in 1..rgb.h, j \in 1..rgb.w, c \in 1..3 :
          Num(bgr, i, j, c) = Num(rgb, i, j, 4 - c)

\* The four representations by value, and byteSize.
Fields(o) ==
    <<Content(o.PILImage), Content(o.CVImage), Content(o.CVBGRImage),
      Content(o.TFImage), o.byteSize>>

Bufs(o) == {o.PILImage.buf, o.CVImage.buf, o.CVBGRImage.buf, o.TFImage.buf}

Mutators == {"resize", "crop", "compress", "setMetadata", "adjustHue"}

\* C1: in every object, CVBGRImage is the channel swap of CVImage, pixel for
\* pixel, whatever the object was built from and whatever was called on it.
ChannelSwapLaw ==
    \A i \in LiveIds : IsSwapOf(heap[i].CVBGRImage, heap[i].CVImage)

\* C2: an update that raises leaves all five fields of the object as they
\* were before the call.
NoPartialStateOnFailure ==
    [][(last'.op = "update" /\ last'.exc # NoExc) => heap'[Target] = heap[Target]]_vars

\* C3: after update or the constructor received an array of a floating-point
\* element type, CVImage is the input times 255 cast to uint8, and PILImage
\* and CVBGRImage are derived from that CVImage; a uint8 array is taken as
\* it is.
FloatArrayDispatch ==
    (last.op \in {"init", "update"} /\ last.arg.kind = "ndarray" /\ Ref(last.target) # 0) =>
        LET o == heap[Ref(last.target)]
        IN  IF IsFloat(last.arg.dtype)
            THEN /\ Content(o.CVImage) = Content(astype_uint8(times255(last.arg)))
                 /\ o.PILImage.px = o.CVImage.px
                 /\ IsSwapOf(o.CVBGRImage, o.CVImage)
            ELSE Content(o.CVImage) = Content(astype_uint8(last.arg))

\* C4: in every object PILImage is an image, CVImage and CVBGRImage are uint8
\* arrays and TFImage is a float32 array.
TypeCoverage ==
    \A i \in LiveIds :
        /\ heap[i].PILImage.kind = "PIL"
        /\ heap[i].CVImage.kind = "ndarray" /\ heap[i].CVImage.dtype = "uint8"
        /\ heap[i].CVBGRImage.kind = "ndarray" /\ heap[i].CVBGRImage.dtype = "uint8"
        /\ heap[i].TFImage.kind = "ndarray" /\ heap[i].TFImage.dtype = "float32"

\* C5: update called with the object's own CVImage leaves the content of
\* PILImage, CVImage, CVBGRImage and TFImage, and byteSize, unchanged.
IdempotentResync ==
    [][(last'.op = "update" /\ last'.arg = heap[Target].CVImage)
          => Fields(heap'[Target]) = Fields(heap[Target])]_vars

\* C6: the constructor or update called with a value that is no image, no
\* array and no string raises the TypeError that names the value's type, and
\* no field of any object changes (a failed constructor binds no object).
UnsupportedInputRejected ==
    [][(last'.op \in {"init", "update"} /\ last'.arg.kind \notin {"PIL", "ndarray", "str"})
          => /\ last'.exc.type = "TypeError"
             /\ \E k \in 1..Len(last'.exc.msg) : last'.exc.msg[k] = TypeName(last'.arg)
             /\ heap' = heap /\ a' = a /\ b' = b]_vars

UnsupportedInputSeen ==
    /\ last.op = "update" /\ last.arg.kind = "int" /\ last.exc.type = "TypeError"
    /\ a # 0 /\ heap[a].CVImage.kind = "ndarray"

\* C7: the object copy() returns is another object, none of its buffers is a
\* buffer of the original, and from then on a call on one of the two leaves
\* every field of the other as it was.
CopyIndependence ==
    [][/\ last'.op = "copy" =>
            /\ b' # a'
            /\ Bufs(heap'[b']) \cap Bufs(heap'[a']) = {}
            /\ heap'[a'] = heap[a]
       /\ (b # 0 /\ last'.op # "copy" /\ last'.target = "b") => heap'[a] = heap[a]
       /\ (b # 0 /\ last'.op # "copy" /\ last'.target = "a") => heap'[b] = heap[b]]_vars

CopyThenMutated ==
    /\ b # 0 /\ last.target = "b" /\ last.op \in Mutators \cup {"update"}
    /\ last.exc = NoExc
    /\ Fields(heap[b]) # Fields(heap[a])

\* C8: in every object TFImage has the shape of CVImage and every element of
\* it is the element of CVImage divided by 255, so it lies in [0, 1].
FloatScalingLaw ==
    \A i \in LiveIds :
        /\ SameShape(heap[i].TFImage, heap[i].CVImage)
        /\ \A r \in 1..heap[i].CVImage.h, c \in 1..heap[i].CVImage.w, k \in 1..3 :
              /\ Num(heap[i].TFImage, r, c, k) * Scale = Num(heap[i].CVImage, r, c, k)
              /\ Num(heap[i].TFImage, r, c, k) \in 0..FloatUnit

\* C9: the object built from a uint8 array A has CVImage equal to A: the same
\* shape and every element equal.
RoundTripIdentity ==
    (last.op = "init" /\ last.arg.kind = "ndarray" /\ last.arg.dtype = "uint8") =>
        /\ last.exc = NoExc
        /\ a # 0
        /\ Content(heap[a].CVImage) = Content(last.arg)

RoundTripSeen ==
    /\ last.op = "init" /\ last.arg.kind = "ndarray" /\ last.arg.dtype = "uint8"
    /\ a # 0
    /\ heap[a].CVImage.h = MaxDim
    /\ heap[a].CVImage.px[1][1] # heap[a].CVImage.px[1][2]

====
